---- MODULE Spec2Model ----
(***************************************************************************)
(* A model of the fastlz-rs codec: the hash-indexed match finder and the   *)
(* level-1 / level-2 opcode writers of compress.rs, the two decoders and   *)
(* the output sinks of decompress.rs, and the public entry points.         *)
(*                                                                         *)
(* Bytes are the integers 0..255.  Rust slices are TLA+ sequences; a      *)
(* 0-based position p of a slice is element p + 1 of the sequence.        *)
(***************************************************************************)
EXTENDS Integers, Sequences, FiniteSets, TLC

\* ------------------------------------------------------------------------
\* Program constants
\* ------------------------------------------------------------------------

HTAB_LOG2 == 13

HTAB_SZ == 8192

\* 2654435769 = 0x9E3779B9, kept as two 16-bit limbs (0x9E37, 0x79B9)
\* because the product is computed modulo 2^32.
HashMulHi == 40503

HashMulLo == 31161

\* CompressSink::MAX_DISP of L1Output
MAX_DISP_L1 == 8191

\* CompressSink::MAX_DISP of L2Output (8191 + 65535)
MAX_DISP_L2 == 73726

\* the displacement from which level 2 uses the extended encoding
FarDisp == 8191

\* compress_to_buf / compress_to_vec: Default is level 1 below this length
DefaultThreshold == 65536

\* ------------------------------------------------------------------------
\* Small helpers
\* ------------------------------------------------------------------------

Min2(a, b) == IF a <= b THEN a ELSE b

SetMin(S) == CHOOSE m \in S : \A x \in S : m <= x

\* a | b on non-negative integers
RECURSIVE BitOr(_, _)
BitOr(a, b) ==
    IF a = 0 THEN b
    ELSE IF b = 0 THEN a
    ELSE 2 * BitOr(a \div 2, b \div 2) + (IF a % 2 = 1 \/ b % 2 = 1 THEN 1 ELSE 0)

\* x as u8
AsU8(x) == x % 256

\* buf[pos .. pos + len].copy_from_slice(&S[from .. from + len])
CopyFromSlice(buf, pos, S, from, len) ==
    SubSeq(buf, 1, pos) \o SubSeq(S, from + 1, from + len)
                       \o SubSeq(buf, pos + len + 1, Len(buf))

\* ------------------------------------------------------------------------
\* fastlz_hash: (v * 2654435769 mod 2^32) >> (32 - HTAB_LOG2), v < 2^24.
\* The 32-bit wrapping product is computed on 16-bit limbs.
\* ------------------------------------------------------------------------

fastlz_hash(v) ==
    LET vl   == v % 65536
        vh   == v \div 65536
        p0   == vl * HashMulLo
        \* (vl * HashMulHi) mod 2^16, split so that no product exceeds 2^31
        c1   == ((vl % 256) * HashMulHi + (((vl \div 256) * HashMulHi) % 256) * 256) % 65536
        c2   == (vh * HashMulLo) % 65536
        hi16 == ((p0 \div 65536) + c1 + c2) % 65536
    IN  hi16 \div (2 ^ (32 - HTAB_LOG2 - 16))

\* hash_head & 0xffffff of the little-endian u32 read at 0-based position p
Key3(S, p) == S[p + 1] + 256 * S[p + 2] + 65536 * S[p + 3]

\* ------------------------------------------------------------------------
\* Output sinks of the compressor (util.rs BufOutput / VecOutput with the
\* OutputHelper impls of compress.rs).  A sink carries an err flag: the
\* writers return at the first failing call (the ? operator), so once err
\* is set no later call of the same compress has any effect.
\* ------------------------------------------------------------------------

\* a region of cap bytes, zeroed as in the tests ([0u8; cap])
Zeroes(cap) == SubSeq([k \in 1..cap |-> 0], 1, cap)

NewBuf(cap) == [kind |-> "buf", pos |-> 0, buf |-> Zeroes(cap), err |-> FALSE]

NewVec == [kind |-> "vec", pos |-> 0, buf |-> << >>, err |-> FALSE]

\* the bytes a sink has received: buf[..pos] or the whole vec
Written(o) == IF o.kind = "buf" THEN SubSeq(o.buf, 1, o.pos) ELSE o.buf

putc(o, c) ==
    IF o.err THEN o
    ELSE IF o.kind = "vec"
         THEN [o EXCEPT !.buf = Append(@, c), !.pos = @ + 1]
         ELSE IF o.pos + 1 <= Len(o.buf)
              THEN [o EXCEPT !.buf[o.pos + 1] = c, !.pos = @ + 1]
              ELSE [o EXCEPT !.err = TRUE]

\* put_buf of the slice S[from .. from + n) (0-based, half open)
put_buf(o, S, from, n) ==
    IF o.err THEN o
    ELSE IF o.kind = "vec"
         THEN [o EXCEPT !.buf = @ \o SubSeq(S, from + 1, from + n), !.pos = @ + n]
         ELSE LET did_overflow == o.pos + n > Len(o.buf)
                  len == IF did_overflow THEN Len(o.buf) - o.pos ELSE n
              IN  [o EXCEPT !.buf = CopyFromSlice(@, o.pos, S, from, len),
                            !.pos = @ + len,
                            !.err = did_overflow]

\* a variant of poke_l2 that marks the last byte written
poke_l2_last(o) == [o EXCEPT !.buf[o.pos] = BitOr(@, 32)]

\* OutputHelper::poke_l2: buf[0] |= 0b001_00000
poke_l2(o) == [o EXCEPT !.buf[1] = BitOr(@, 32)]

\* ------------------------------------------------------------------------
\* Opcode writers (L1Output / L2Output).  A literal run is the slice
\* S[from .. from + n) of the input.
\* ------------------------------------------------------------------------

\* a variant of put_lits that splits the literals into runs of 16
RECURSIVE put_lits_16(_, _, _, _)
put_lits_16(o, S, from, n) ==
    IF n > 16
    THEN put_lits_16(put_buf(putc(o, 15), S, from, 16), S, from + 16, n - 16)
    ELSE put_buf(putc(o, AsU8(n - 1)), S, from, n)

\* put_lits, identical for L1Output and L2Output
RECURSIVE put_lits(_, _, _, _)
put_lits(o, S, from, n) ==
    IF n > 32
    THEN put_lits(put_buf(putc(o, 31), S, from, 32), S, from + 32, n - 32)
    ELSE put_buf(putc(o, AsU8(n - 1)), S, from, n)

\* L1Output::put_backref
\* a variant of L1Output::put_backref whose loop also splits a length of
\* exactly 0xff + 9
RECURSIVE put_backref_l1_ge(_, _, _)
put_backref_l1_ge(o, disp, len) ==
    IF len >= 255 + 9
    THEN LET b0 == BitOr(224, AsU8(disp \div 256))
             b1 == 255 - 2
             b2 == AsU8(disp)
         IN  put_backref_l1_ge(putc(putc(putc(o, b0), b1), b2), disp, len - (255 - 2 + 9))
    ELSE IF len <= 8
         THEN LET b0 == BitOr(AsU8((len - 2) * 32), AsU8(disp \div 256))
                  b1 == AsU8(disp)
              IN  putc(putc(o, b0), b1)
         ELSE LET b0 == BitOr(224, AsU8(disp \div 256))
                  b1 == AsU8(len - 9)
                  b2 == AsU8(disp)
              IN  putc(putc(putc(o, b0), b1), b2)

\* a variant of L1Output::put_backref that splits off maximal chunks (0xff + 9)
RECURSIVE put_backref_l1_max(_, _, _)
put_backref_l1_max(o, disp, len) ==
    IF len > 255 + 9
    THEN LET b0 == BitOr(224, AsU8(disp \div 256))
             b1 == 255
             b2 == AsU8(disp)
         IN  put_backref_l1_max(putc(putc(putc(o, b0), b1), b2), disp, len - (255 + 9))
    ELSE IF len <= 8
         THEN LET b0 == BitOr(AsU8((len - 2) * 32), AsU8(disp \div 256))
                  b1 == AsU8(disp)
              IN  putc(putc(o, b0), b1)
         ELSE LET b0 == BitOr(224, AsU8(disp \div 256))
                  b1 == AsU8(len - 9)
                  b2 == AsU8(disp)
              IN  putc(putc(putc(o, b0), b1), b2)

RECURSIVE put_backref_l1(_, _, _)
put_backref_l1(o, disp, len) ==
    IF len > 255 + 9
    THEN LET b0 == BitOr(224, AsU8(disp \div 256))
             b1 == 255 - 2
             b2 == AsU8(disp)
         IN  put_backref_l1(putc(putc(putc(o, b0), b1), b2), disp, len - (255 - 2 + 9))
    ELSE IF len <= 8
         THEN LET b0 == AsU8(BitOr((len - 2) * 32, disp \div 256))
                  b1 == AsU8(disp)
              IN  putc(putc(o, b0), b1)
         ELSE LET b0 == BitOr(224, AsU8(disp \div 256))
                  b1 == AsU8(len - 9)
                  b2 == AsU8(disp)
              IN  putc(putc(putc(o, b0), b1), b2)

\* the length-extension loop of L2Output::put_backref
\* a variant of the length-extension loop that writes no terminating byte
\* when the remaining length is zero
RECURSIVE put_morelen_l2_noterm(_, _)
put_morelen_l2_noterm(o, len) ==
    IF len >= 255 THEN put_morelen_l2_noterm(putc(o, 255), len - 255)
    ELSE IF len > 0 THEN putc(o, len)
    ELSE o

RECURSIVE put_morelen_l2(_, _)
put_morelen_l2(o, len) ==
    LET blen == Min2(len, 255)
        o1   == putc(o, blen)
    IN  IF blen # 255 THEN o1 ELSE put_morelen_l2(o1, len - blen)

\* L2Output::put_backref
put_backref_l2(o, disp, len) ==
    LET earlydisp == Min2(disp, 8191)
        len2      == len - 2
        earlylen  == Min2(len2, 7)
        b0        == AsU8(BitOr(earlylen * 32, earlydisp \div 256))
        o1        == putc(o, b0)
        o2        == IF earlylen = 7 THEN put_morelen_l2(o1, len2 - earlylen) ELSE o1
        o3        == putc(o2, AsU8(earlydisp))
        moredisp  == disp - earlydisp
    IN  IF earlydisp = 8191
        THEN putc(putc(o3, AsU8(moredisp \div 256)), AsU8(moredisp))
        ELSE o3

\* ------------------------------------------------------------------------
\* Compression levels and the per-level constants of CompressSink
\* ------------------------------------------------------------------------

Levels == {"Default", "Level1", "Level2"}

IS_LEVEL2(lvl) == lvl = "Level2"

\* a variant of MAX_DISP with the level-2 limit at both levels
MAX_DISP_L2_always(lvl) == MAX_DISP_L2

MAX_DISP(lvl) == IF IS_LEVEL2(lvl) THEN MAX_DISP_L2 ELSE MAX_DISP_L1

put_backref(lvl, o, disp, len) ==
    IF IS_LEVEL2(lvl) THEN put_backref_l2(o, disp, len) ELSE put_backref_l1(o, disp, len)

\* a variant of the level dispatch of poke_l2 that never sets the marker
sink_poke_none(lvl, o) == o

\* CompressSink::poke_l2: a no-op for L1Output
sink_poke_l2(lvl, o) == IF IS_LEVEL2(lvl) THEN poke_l2(o) ELSE o

\* ------------------------------------------------------------------------
\* CompressState and compress_impl
\* ------------------------------------------------------------------------

\* The array htab: [usize; HTAB_SZ] is kept as the function of its
\* non-zero entries: an index outside the domain holds 0.

\* CompressState::new: htab: [0; HTAB_SZ]
NewHtab == << >>

\* a variant of FillZero that leaves the table of the previous call in place
KeepTable(htab) == htab

\* self.htab.fill(0)
FillZero(htab) == << >>

\* self.htab[h]
HtabGet(htab, h) == IF h \in DOMAIN htab THEN htab[h] ELSE 0

\* self.htab[h] = p
HtabSet(htab, h, p) ==
    IF h \in DOMAIN htab THEN [htab EXCEPT ![h] = p] ELSE (h :> p) @@ htab

\* peek4 returns Some at 0-based position p iff four bytes remain
peek4(S, p) == p + 4 <= Len(S)

\* the number of byte pairs the match extension compares in one step
ScanBlock == 256

\* S[a .. a + n) == S[b .. b + n)
SliceEq(S, a, b, n) == \A k \in 1..n : S[a + k] = S[b + k]

\* The number of leading equal pairs of inp[from..] and ref_[from..], plus
\* from (inp is the shorter slice).  The pairs are compared in order,
\* ScanBlock of them at a time, up to the first unequal pair.
RECURSIVE MatchFrom(_, _, _, _)
MatchFrom(S, cur_pos, ref_pos, from) ==
    LET rem  == Len(S) - cur_pos
        hi   == Min2(from + ScanBlock, rem)
        mism == {k \in from..(hi - 1) : S[cur_pos + k + 1] # S[ref_pos + k + 1]}
    IN  IF from >= rem THEN rem
        ELSE IF mism # {} THEN SetMin(mism)
        ELSE MatchFrom(S, cur_pos, ref_pos, hi)

\* a variant of MatchLen that starts comparing at inp[4..], ref_[4..]
MatchLenSkip4(S, cur_pos, ref_pos) == MatchFrom(S, cur_pos, ref_pos, 4)

\* the full match length: 3 + the number of leading equal pairs of
\* inp[3..] and ref_[3..]
MatchLen(S, cur_pos, ref_pos) == MatchFrom(S, cur_pos, ref_pos, 3)

\* a variant of Rehash that enters only the first of the two positions
RehashFirstOnly(S, st, cur_pos, len) ==
    LET p == cur_pos + len - 2
    IN  IF peek4(S, p)
        THEN [st EXCEPT !.htab = HtabSet(@, fastlz_hash(Key3(S, p)), p), !.pos = p + 2]
        ELSE [st EXCEPT !.pos = p, !.done = TRUE]

\* "update hashes at the boundary": st has already emitted the backreference
\* of length len found at cur_pos
Rehash(S, st, cur_pos, len) ==
    LET p == cur_pos + len - 2
    IN  IF peek4(S, p)
        THEN LET h1 == fastlz_hash(Key3(S, p))
                 h2 == fastlz_hash(Key3(S, p + 1))
             IN  [st EXCEPT !.htab = HtabSet(HtabSet(@, h1, p), h2, p + 1),
                            !.pos = p + 2]
        ELSE [st EXCEPT !.pos = p, !.done = TRUE]

\* lits plus backreference for a match of length len at cur_pos
EmitMatch(S, lvl, st, cur_pos, disp, len) ==
    LET o1 == IF cur_pos - st.anchor > 0
              THEN put_lits(st.o, S, st.anchor, cur_pos - st.anchor)
              ELSE st.o
        o2 == put_backref(lvl, o1, disp, len)
        st2 == [st EXCEPT !.o = o2, !.anchor = cur_pos + len]
    IN  IF o2.err THEN st2 ELSE Rehash(S, st2, cur_pos, len)

\* a variant of EndRuleLen that lets a far-away match end the file
EndRuleLenNone(lvl, disp, len0, rem) == len0

\* "level2 doesn't allow *ending* a file on a far-away match": the length
\* put out for a match of full length len0 when rem input bytes are left
EndRuleLen(lvl, disp, len0, rem) ==
    IF IS_LEVEL2(lvl) /\ disp >= FarDisp /\ len0 = rem THEN len0 - 1 ELSE len0

\* a variant of FarTailDiffers that compares the fourth byte only
FarTailDiffersAtFour(S, cur_pos, ref_pos) == S[cur_pos + 4] # S[ref_pos + 4]

\* inp[3..5] != ref_[3..5]
FarTailDiffers(S, cur_pos, ref_pos) == ~SliceEq(S, cur_pos + 3, ref_pos + 3, 2)

\* a variant of Inc1 that leaves the cursor where it is
Inc0(st) == st

\* inp.inc(1)
Inc1(st) == [st EXCEPT !.pos = @ + 1]

\* One iteration of the main loop, entered with peek4 = Some at st.pos.
\* cur_pos - ref_pos - 1 is a usize: were ref_pos >= cur_pos it would wrap
\* to a value above every MAX_DISP, so the candidate is then not a match.
CompressStep(S, lvl, st) ==
    LET cur_pos == st.pos
        hash    == fastlz_hash(Key3(S, cur_pos))
        ref_pos == HtabGet(st.htab, hash)
        st1     == [st EXCEPT !.htab = HtabSet(@, hash, cur_pos)]
        disp    == cur_pos - ref_pos - 1
        rem     == Len(S) - cur_pos
    IN  IF cur_pos > ref_pos /\ disp <= MAX_DISP(lvl) /\ SliceEq(S, cur_pos, ref_pos, 3)
        THEN IF IS_LEVEL2(lvl) /\ disp >= FarDisp /\ rem < 5
             THEN [st1 EXCEPT !.done = TRUE]
             ELSE IF IS_LEVEL2(lvl) /\ disp >= FarDisp
                     /\ FarTailDiffers(S, cur_pos, ref_pos)
                  THEN Inc1(st1)
                  ELSE EmitMatch(S, lvl, st1, cur_pos, disp,
                                 EndRuleLen(lvl, disp, MatchLen(S, cur_pos, ref_pos), rem))
        ELSE Inc1(st1)

\* a variant of LoopEnds whose loop goes on while three bytes remain
LoopEndsAtThree(S, st) == st.done \/ st.o.err \/ ~(st.pos + 3 <= Len(S))

\* the main loop is left: by a break, by the `?` of a failed write, or
\* because peek4 yields None
LoopEnds(S, st) == st.done \/ st.o.err \/ ~peek4(S, st.pos)

\* a variant of LoopStart without the inp.inc(1) before the loop
LoopStartAtZero(htab, o) ==
    [pos |-> 0, anchor |-> 0, htab |-> FillZero(htab), o |-> o, done |-> FALSE]

\* the locals of compress_impl on entry to the main loop (after inp.inc(1))
LoopStart(htab, o) ==
    [pos |-> 1, anchor |-> 0, htab |-> FillZero(htab), o |-> o, done |-> FALSE]

\* while let Some(hash_head) = inp.peek4() { ... }
RECURSIVE CompressLoop(_, _, _)
CompressLoop(S, lvl, st) ==
    IF LoopEnds(S, st)
    THEN st
    ELSE CompressLoop(S, lvl, CompressStep(S, lvl, st))

\* "if there's anything leftover, output it", then outp.poke_l2()
PokeIfOk(lvl, o) == IF o.err THEN o ELSE sink_poke_l2(lvl, o)

\* what compress_impl does once the main loop has ended in st
AfterLoop(S, lvl, st) ==
    [htab |-> st.htab,
     o    |-> IF st.o.err
              THEN st.o
              ELSE IF Len(S) - st.anchor > 0
                   THEN PokeIfOk(lvl, put_lits(st.o, S, st.anchor, Len(S) - st.anchor))
                   ELSE PokeIfOk(lvl, st.o)]

\* a variant of compress_impl that emits a header byte for the empty input
compress_impl_hdr(htab, S, lvl, o) ==
    IF Len(S) = 0
    THEN [htab |-> htab, o |-> PokeIfOk(lvl, putc(o, 0))]
    ELSE AfterLoop(S, lvl, CompressLoop(S, lvl, LoopStart(htab, o)))

\* compress_impl on the state htab, input S, writer level lvl (Level1 or
\* Level2) and sink o; yields the state and the sink it leaves behind
\* a variant of compress_impl that fills the table before it tests for the
\* empty input
compress_impl_fill_first(htab, S, lvl, o) ==
    IF Len(S) = 0
    THEN [htab |-> FillZero(htab), o |-> o]
    ELSE AfterLoop(S, lvl, CompressLoop(S, lvl, LoopStart(htab, o)))

compress_impl(htab, S, lvl, o) ==
    IF Len(S) = 0
    THEN [htab |-> htab, o |-> o]
    ELSE AfterLoop(S, lvl, CompressLoop(S, lvl, LoopStart(htab, o)))

\* a variant of PickLevel that still picks Level1 at 65536 bytes
PickLevelInclusive(level, S) ==
    IF level = "Default"
    THEN IF Len(S) <= DefaultThreshold THEN "Level1" ELSE "Level2"
    ELSE level

\* the level choice of compress_to_buf / compress_to_vec
PickLevel(level, S) ==
    IF level = "Default"
    THEN IF Len(S) < DefaultThreshold THEN "Level1" ELSE "Level2"
    ELSE level

\* the value a compress entry point returns for the sink it has filled
CompressResult(o) == IF o.err THEN "OutputTooSmall" ELSE "Ok"

compress_to_buf(htab, S, cap, level) ==
    compress_impl(htab, S, PickLevel(level, S), NewBuf(cap))

compress_to_vec(htab, S, level) ==
    compress_impl(htab, S, PickLevel(level, S), NewVec)

\* ------------------------------------------------------------------------
\* Output sinks of the decompressor (decompress.rs BufOutput / VecOutput).
\* A sink operation yields the sink it leaves and its Result.
\* ------------------------------------------------------------------------

DNewBuf(cap) == [kind |-> "buf", pos |-> 0, buf |-> Zeroes(cap)]

DNewVec == [kind |-> "vec", pos |-> 0, buf |-> << >>]

\* a variant of CopyFwd that copies from the bytes as they were before the
\* copy began (a block copy of a region that may overlap its target)
CopyFwdSnapshot(buf, pos, disp, lo, hi) ==
    SubSeq([i \in 1..Len(buf) |->
               IF i > pos + lo /\ i <= pos + hi THEN buf[i - disp - 1] ELSE buf[i]],
           1, Len(buf))

\* for i in lo..hi { buf[pos + i] = buf[pos - disp - 1 + i] }: the
\* assignments are made one byte at a time in increasing order of i (the
\* index range is split in halves only to keep the evaluation shallow)
RECURSIVE CopyFwd(_, _, _, _, _)
CopyFwd(buf, pos, disp, lo, hi) ==
    IF hi <= lo THEN buf
    ELSE IF hi = lo + 1
         THEN [buf EXCEPT ![pos + lo + 1] = buf[pos - disp - 1 + lo + 1]]
         ELSE LET mid  == (lo + hi) \div 2
                  half == CopyFwd(buf, pos, disp, lo, mid)
              IN  \* the lower half is complete before the upper half starts
                  IF Len(half) = Len(buf)
                  THEN CopyFwd(half, pos, disp, mid, hi)
                  ELSE half

\* OutputSink::put_lits of the slice S[from .. from + n)
d_put_lits(o, S, from, n) ==
    IF o.kind = "vec"
    THEN [o   |-> [o EXCEPT !.buf = @ \o SubSeq(S, from + 1, from + n), !.pos = @ + n],
          res |-> "Ok"]
    ELSE LET did_overflow == o.pos + n > Len(o.buf)
             len == IF did_overflow THEN Len(o.buf) - o.pos ELSE n
         IN  [o   |-> [o EXCEPT !.buf = CopyFromSlice(@, o.pos, S, from, len),
                                !.pos = @ + len],
              res |-> IF did_overflow THEN "OutputTooSmall" ELSE "Ok"]

\* the test that rejects a backreference reaching before the output start
BackrefInvalid(disp, pos) == disp + 1 > pos

\* the part of put_backref after the displacement test: VecOutput resizes
\* and copies len0 bytes, BufOutput copies the bytes that fit
d_copy_backref(o, disp, len0) ==
    IF o.kind = "vec"
    THEN LET resized == o.buf \o Zeroes(len0)
         IN  [o   |-> [o EXCEPT !.buf = CopyFwd(resized, o.pos, disp, 0, len0),
                                !.pos = @ + len0],
              res |-> "Ok"]
    ELSE LET did_overflow == o.pos + len0 > Len(o.buf)
             len == IF did_overflow THEN Len(o.buf) - o.pos ELSE len0
         IN  [o   |-> [o EXCEPT !.buf = CopyFwd(@, o.pos, disp, 0, len),
                                !.pos = @ + len],
              res |-> IF did_overflow THEN "OutputTooSmall" ELSE "Ok"]

\* does a backreference of length len0 overflow the region of o?
d_overflows(o, len0) == o.kind = "buf" /\ o.pos + len0 > Len(o.buf)

\* a variant of put_backref that returns OutputTooSmall without copying
\* the bytes that fit
d_put_backref_nocopy(o, disp, len0) ==
    IF BackrefInvalid(disp, o.pos)
    THEN [o |-> o, res |-> "InvalidBackreference"]
    ELSE IF d_overflows(o, len0)
         THEN [o |-> o, res |-> "OutputTooSmall"]
         ELSE d_copy_backref(o, disp, len0)

\* a variant of put_backref that tests the capacity before the displacement
d_put_backref_capfirst(o, disp, len0) ==
    IF d_overflows(o, len0)
    THEN IF BackrefInvalid(disp, o.pos)
         THEN [o |-> o, res |-> "OutputTooSmall"]
         ELSE d_copy_backref(o, disp, len0)
    ELSE IF BackrefInvalid(disp, o.pos)
         THEN [o |-> o, res |-> "InvalidBackreference"]
         ELSE d_copy_backref(o, disp, len0)

\* OutputSink::put_backref
d_put_backref(o, disp, len0) ==
    IF BackrefInvalid(disp, o.pos)
    THEN [o |-> o, res |-> "InvalidBackreference"]
    ELSE d_copy_backref(o, disp, len0)

\* ------------------------------------------------------------------------
\* The decoders.  The input cursor ip is the number of bytes consumed
\* (the slice inp of the code is S[ip ..]).
\* ------------------------------------------------------------------------

\* InputHelper::getc succeeds iff a byte remains; it then yields S[ip]
CanGetc(S, ip) == ip < Len(S)

\* a variant of check_len that wants one byte more than needed
check_len_strict(S, ip, min) == Len(S) - ip > min

\* InputHelper::check_len(min)
check_len(S, ip, min) == Len(S) - ip >= min

\* the long-match loop of decompress_lv2: add bytes to len until and
\* including the first byte that is not 0xff
\* a variant of the long-match loop that does not add the byte that ends it
RECURSIVE ReadMoreLenNoLast(_, _, _)
ReadMoreLenNoLast(S, ip, len) ==
    IF ~CanGetc(S, ip)
    THEN [ok |-> FALSE, ip |-> ip, len |-> len]
    ELSE LET morelen == S[ip + 1]
         IN  IF morelen # 255
             THEN [ok |-> TRUE, ip |-> ip + 1, len |-> len]
             ELSE ReadMoreLenNoLast(S, ip + 1, len + morelen)

RECURSIVE ReadMoreLen(_, _, _)
ReadMoreLen(S, ip, len) ==
    IF ~CanGetc(S, ip)
    THEN [ok |-> FALSE, ip |-> ip, len |-> len]
    ELSE LET morelen == S[ip + 1]
         IN  IF morelen # 255
             THEN [ok |-> TRUE, ip |-> ip + 1, len |-> len + morelen]
             ELSE ReadMoreLen(S, ip + 1, len + morelen)

\* the length of a backreference: decompress_lv1 reads one byte for a long
\* match, decompress_lv2 reads a run of extension bytes
ReadLen(S, lv, ctrl, ip) ==
    IF lv = 1
    THEN IF ctrl \div 32 = 7
         THEN IF CanGetc(S, ip)
              THEN [ok |-> TRUE, ip |-> ip + 1, len |-> S[ip + 1] + 9]
              ELSE [ok |-> FALSE, ip |-> ip, len |-> 0]
         ELSE [ok |-> TRUE, ip |-> ip, len |-> (ctrl \div 32) + 2]
    ELSE IF ctrl \div 32 = 7
         THEN ReadMoreLen(S, ip, (ctrl \div 32) + 2)
         ELSE [ok |-> TRUE, ip |-> ip, len |-> (ctrl \div 32) + 2]

\* the displacement: the low byte, and in decompress_lv2 two more bytes
\* (big endian) when the 13-bit displacement is all ones
ReadDisp(S, lv, ctrl, ip) ==
    IF ~CanGetc(S, ip)
    THEN [ok |-> FALSE, ip |-> ip, disp |-> 0]
    ELSE LET disp == BitOr((ctrl % 32) * 256, S[ip + 1])
         IN  IF lv = 2 /\ disp = 8191
             THEN IF CanGetc(S, ip + 1) /\ CanGetc(S, ip + 2)
                  THEN [ok |-> TRUE, ip |-> ip + 3,
                        disp |-> disp + BitOr(S[ip + 2] * 256, S[ip + 3])]
                  ELSE [ok |-> FALSE, ip |-> ip, disp |-> 0]
             ELSE [ok |-> TRUE, ip |-> ip + 1, disp |-> disp]

\* The body of the decoder loop for the record whose control byte is
\* st.ctrl.  st.res is "run" while the loop goes on and the returned
\* Result afterwards; st.recs lists, for every record decoded so far, the
\* input and output cursors after it.
DecodeRecord(S, lv, st) ==
    LET ctrl == st.ctrl
        done(st1) ==
            \* the record is complete: read the next control byte
            LET st2 == [st1 EXCEPT !.recs = Append(@, [ip |-> st1.ip, pos |-> st1.o.pos])]
            IN  IF CanGetc(S, st2.ip)
                THEN [st2 EXCEPT !.ctrl = S[st2.ip + 1], !.ip = @ + 1]
                ELSE [st2 EXCEPT !.res = "Ok"]
    IN  IF ctrl \div 32 = 0
        THEN LET len == (ctrl % 32) + 1
             IN  IF ~check_len(S, st.ip, len)
                 THEN [st EXCEPT !.res = "InputTruncated"]
                 ELSE LET r == d_put_lits(st.o, S, st.ip, len)
                      IN  IF r.res # "Ok"
                          THEN [st EXCEPT !.o = r.o, !.res = r.res]
                          ELSE done([st EXCEPT !.o = r.o, !.ip = @ + len])
        ELSE LET l == ReadLen(S, lv, ctrl, st.ip)
                 d == ReadDisp(S, lv, ctrl, l.ip)
             IN  IF ~l.ok \/ ~d.ok
                 THEN [st EXCEPT !.res = "InputTruncated"]
                 ELSE LET r == d_put_backref(st.o, d.disp, l.len)
                      IN  IF r.res # "Ok"
                          THEN [st EXCEPT !.o = r.o, !.ip = d.ip, !.res = r.res]
                          ELSE done([st EXCEPT !.o = r.o, !.ip = d.ip])

RECURSIVE DecodeLoop(_, _, _)
DecodeLoop(S, lv, st) ==
    IF st.res # "run" THEN st ELSE DecodeLoop(S, lv, DecodeRecord(S, lv, st))

\* decompress_lv1 / decompress_lv2 (lv = 1 / 2): the first control byte
\* has its top three bits masked off
DecodeStart(S, lv, o) ==
    [ctrl |-> S[1] % 32, ip |-> 1, o |-> o, res |-> "run", recs |-> << >>, dec |-> lv]

decompress_lv(S, lv, o) == DecodeLoop(S, lv, DecodeStart(S, lv, o))

\* a variant of SelectDecoder that takes every non-zero marker for level 2
SelectDecoderLenient(b0) == IF b0 \div 32 = 0 THEN 1 ELSE 2

\* the decoder decompress_impl selects for the first byte b0: 1, 2, or 0
\* for InvalidCompressionLevel
SelectDecoder(b0) ==
    IF b0 \div 32 = 0 THEN 1
    ELSE IF b0 \div 32 = 1 THEN 2
    ELSE 0

decompress_impl(S, o) ==
    IF Len(S) = 0
    THEN [ctrl |-> 0, ip |-> 0, o |-> o, res |-> "Ok", recs |-> << >>, dec |-> 0]
    ELSE IF SelectDecoder(S[1]) = 0
         THEN [ctrl |-> 0, ip |-> 0, o |-> o, res |-> "InvalidCompressionLevel",
               recs |-> << >>, dec |-> 0]
         ELSE decompress_lv(S, SelectDecoder(S[1]), o)

decompress_to_buf(S, cap) == decompress_impl(S, DNewBuf(cap))

decompress_to_vec(S) == decompress_impl(S, DNewVec)

\* ------------------------------------------------------------------------
\* Bounds and the inputs the callers draw from
\* ------------------------------------------------------------------------

\* longest enumerated input of a compress call
MaxLen == 9

\* longest enumerated stream handed to decompress
MaxStreamLen == 5

\* largest capacity of the region handed to decompress_to_buf
MaxCap == 6

\* the length of the non-empty inputs of the calls that share one state
ReuseLen == 6

\* the capacity of the region of the compress_to_buf calls that share one
\* state: too small for every non-empty input of ReuseLen bytes
ReuseCap == 3

\* largest displacement and length handed to a sink operation
MaxSinkArg == 3

\* the number of operations made on one sink
MaxSinkOps == 3

\* NoCap stands for the growable output (compress_to_vec, decompress_to_vec)
NoCap == -1

SeqsUpTo(A, n) == UNION {[1..k -> A] : k \in 0..n}

\* byte values of the enumerated inputs
ByteVals == {1, 2}

\* the inputs of the unit tests of compress.rs
TestInputs ==
    { <<1, 2>>, <<1, 2, 3, 4, 5>>, <<1, 1, 1, 1, 1>>, <<1, 1, 1, 1, 1, 2>>,
      <<1, 2, 3, 1, 2, 3, 1, 2, 3>>, <<1, 2, 3, 1, 2, 3, 1, 2, 3, 4>>,
      <<1, 2, 3, 1, 2, 3, 1, 2, 3, 2, 3, 2, 3>>,
      <<1, 2, 3, 1, 2, 3, 1, 2, 3, 3, 3, 3, 3>> }

\* the length of the runs of equal bytes in the long inputs
RunLen == 4096

\* an input of n bytes made of runs of RunLen equal bytes; the runs hold
\* the values 1, 2, 3, ... in turn
RunInput(n) == SubSeq([k \in 1..n |-> 1 + ((k - 1) \div RunLen)], 1, n)

\* inputs around the length at which Default changes level
BigInputs == {RunInput(DefaultThreshold - 1), RunInput(DefaultThreshold)}

Inputs == SeqsUpTo(ByteVals, MaxLen) \cup TestInputs \cup BigInputs

IsBig(S) == Len(S) >= DefaultThreshold - 1

\* capacities of the region handed to compress_to_buf for the input S
CompressCaps(S) == IF IsBig(S) THEN {0, 1, 500, 2000} ELSE 0..(Len(S) + 1)

\* ------------------------------------------------------------------------
\* State
\* ------------------------------------------------------------------------

VARIABLES
    htab,    \* CompressState.htab
    src,     \* the input slice of the last call
    lvl,     \* the level argument of the last compress call
    cap,     \* the capacity of the output region of the last call, or NoCap
    cout,    \* the sink the last compress call left behind
    dout,    \* what the last decompress call left behind (sink, Result, trace)
    pc,      \* the position of the caller
    snk,     \* a decoder sink driven operation by operation
    sop,     \* the last operation on snk: arguments, Result, sink before it
    st       \* the locals of a compress_impl call that is inside its main loop

vars == <<htab, src, lvl, cap, cout, dout, pc, snk, sop, st>>

NoDout == [ctrl |-> 0, ip |-> 0, o |-> DNewVec, res |-> "none", recs |-> << >>, dec |-> 0]

NoSop == [op |-> "none", disp |-> 0, len |-> 0, res |-> "none", before |-> DNewVec, n |-> 0]

NoSt == [pos |-> 0, anchor |-> 0, htab |-> << >>, o |-> NewVec, done |-> FALSE]

\* ------------------------------------------------------------------------
\* Specification Spec: one input is compressed with a new CompressState and
\* the stream it yields is decompressed.
\* ------------------------------------------------------------------------

Init ==
    /\ htab = NewHtab
    /\ src \in Inputs
    /\ lvl = "Default"
    /\ cap = NoCap
    /\ cout = NewVec
    /\ dout = NoDout
    /\ pc = "start"
    /\ snk = DNewVec
    /\ sop = NoSop
    /\ st = NoSt

\* the caller keeps what a compress call returned
CompressReturns(r, level, c) ==
    /\ htab' = r.htab
    /\ cout' = r.o
    /\ lvl' = level
    /\ cap' = c

CompressToBuf(level, c) ==
    /\ pc = "start"
    /\ CompressReturns(compress_to_buf(htab, src, c, level), level, c)
    /\ pc' = "compressed"
    /\ UNCHANGED <<src, dout, snk, sop, st>>

CompressToVec(level) ==
    /\ pc = "start"
    /\ CompressReturns(compress_to_vec(htab, src, level), level, NoCap)
    /\ pc' = "compressed"
    /\ UNCHANGED <<src, dout, snk, sop, st>>

\* the caller hands the stream of a successful compression to decompress
\* (streams of the big inputs are not decompressed)
RoundTripToVec ==
    /\ pc = "compressed"
    /\ ~cout.err
    /\ ~IsBig(src)
    /\ dout' = decompress_to_vec(Written(cout))
    /\ pc' = "decompressed"
    /\ UNCHANGED <<htab, src, lvl, cap, cout, snk, sop, st>>

RoundTripToBuf(c) ==
    /\ pc = "compressed"
    /\ ~cout.err
    /\ ~IsBig(src)
    /\ dout' = decompress_to_buf(Written(cout), c)
    /\ pc' = "decompressed"
    /\ UNCHANGED <<htab, src, lvl, cap, cout, snk, sop, st>>

Next ==
    \/ \E level \in Levels : \E c \in CompressCaps(src) : CompressToBuf(level, c)
    \/ \E level \in Levels : CompressToVec(level)
    \/ RoundTripToVec
    \/ \E c \in {Len(src), Len(src) + 1} : RoundTripToBuf(c)

Spec == Init /\ [][Next]_vars

\* ------------------------------------------------------------------------
\* Specification SpecDecode: one stream is handed to decompress.
\* ------------------------------------------------------------------------

\* byte values of the enumerated streams: literal-run opcodes 0x00 and
\* 0x01, the level-2 marker / short backreference 0x20, the long
\* backreference 0xE0, and 0xFF
StreamBytes == {0, 1, 32, 224, 255}

\* the 32 length-extension bytes 0xFF of test_lv2_manual_verylong_disp
LongExt == SubSeq([k \in 1..32 |-> 255], 1, 32)

\* the stream of test_lv2_manual_verylong_disp: 'A', 0, a backreference of
\* length 8190, a far backreference with displacement 8191 + 0x0000, 'Z'
VeryLongDisp == <<33, 65, 0, 224>> \o LongExt \o <<21, 0, 63, 255, 0, 0, 0, 90>>

\* the same shape with three leading literals and a far backreference with
\* displacement 8191 + 0x0001
VeryLongDisp1 == <<34, 65, 66, 0, 224>> \o LongExt \o <<21, 0, 63, 255, 0, 1>>

\* 'A', 'B', 'C', a backreference of length 8446, and a far backreference
\* with displacement 8191 + 0x0100, valid in either byte order
VeryLongDisp256 == <<34, 65, 66, 67, 224>> \o LongExt \o <<255, 22, 0, 63, 255, 1, 0>>

\* the streams of the unit tests of decompress.rs, and streams whose first
\* byte has each value of the top three bits
TestStreams ==
    { <<1, 65, 66, 2, 67, 68, 69>>, <<1, 65, 66, 32, 1>>,
      <<1, 65, 66, 224, 0, 1>>, <<33, 65, 66, 32, 1>>,
      <<33, 65, 66, 224, 0, 1>>, <<33, 65, 66, 224, 255, 0, 1>>,
      <<1, 65, 66, 224, 255, 1>>, <<33, 65, 66, 63, 255, 0, 0>>,
      <<64, 1>>, <<96, 1>>, <<128, 1>>, <<160, 1>>, <<192, 1>>, <<224, 1>>,
      <<2, 7, 8, 9, 64, 2, 0, 5>>, <<34, 7, 8, 9, 64, 2, 0, 5>>,
      VeryLongDisp, VeryLongDisp1, VeryLongDisp256 }

Streams == SeqsUpTo(StreamBytes, MaxStreamLen) \cup TestStreams

InitDecode ==
    /\ htab = NewHtab
    /\ src \in Streams
    /\ lvl = "Default"
    /\ cap = NoCap
    /\ cout = NewVec
    /\ dout = NoDout
    /\ pc = "stream"
    /\ snk = DNewVec
    /\ sop = NoSop
    /\ st = NoSt

DecompressToBuf(c) ==
    /\ pc = "stream"
    /\ dout' = decompress_to_buf(src, c)
    /\ cap' = c
    /\ pc' = "decoded"
    /\ UNCHANGED <<htab, src, lvl, cout, snk, sop, st>>

DecompressToVec ==
    /\ pc = "stream"
    /\ dout' = decompress_to_vec(src)
    /\ cap' = NoCap
    /\ pc' = "decoded"
    /\ UNCHANGED <<htab, src, lvl, cout, snk, sop, st>>

NextDecode ==
    \/ \E c \in 0..MaxCap : DecompressToBuf(c)
    \/ DecompressToVec

SpecDecode == InitDecode /\ [][NextDecode]_vars

\* ------------------------------------------------------------------------
\* Specification SpecSink: a decoder sink is driven operation by operation.
\* ------------------------------------------------------------------------

InitSink ==
    /\ htab = NewHtab
    /\ src = << >>
    /\ lvl = "Default"
    /\ cap \in (0..MaxCap) \cup {NoCap}
    /\ cout = NewVec
    /\ dout = NoDout
    /\ pc = "sink"
    /\ snk = IF cap = NoCap THEN DNewVec ELSE DNewBuf(cap)
    /\ sop = NoSop
    /\ st = NoSt

\* the caller keeps what a sink operation returned
SinkReturns(name, disp, len, r) ==
    /\ snk' = r.o
    /\ sop' = [op |-> name, disp |-> disp, len |-> len, res |-> r.res,
               before |-> snk, n |-> sop.n + 1]

SinkPutLits(lits) ==
    /\ pc = "sink"
    /\ sop.n < MaxSinkOps
    /\ SinkReturns("put_lits", 0, Len(lits), d_put_lits(snk, lits, 0, Len(lits)))
    /\ UNCHANGED <<htab, src, lvl, cap, cout, dout, pc, st>>

SinkPutBackref(disp, len) ==
    /\ pc = "sink"
    /\ sop.n < MaxSinkOps
    /\ SinkReturns("put_backref", disp, len, d_put_backref(snk, disp, len))
    /\ UNCHANGED <<htab, src, lvl, cap, cout, dout, pc, st>>

NextSink ==
    \/ \E lits \in SeqsUpTo(ByteVals, 2) : SinkPutLits(lits)
    \/ \E disp \in 0..MaxSinkArg : \E len \in 0..MaxSinkArg : SinkPutBackref(disp, len)

SpecSink == InitSink /\ [][NextSink]_vars

\* ------------------------------------------------------------------------
\* Specification SpecReuse: any number of compress calls on one
\* CompressState.
\* ------------------------------------------------------------------------

ReuseInputs == {<< >>} \cup [1..ReuseLen -> ByteVals]

InitReuse ==
    /\ htab = NewHtab
    /\ src = << >>
    /\ lvl = "Default"
    /\ cap = NoCap
    /\ cout = NewVec
    /\ dout = NoDout
    /\ pc = "new"
    /\ snk = DNewVec
    /\ sop = NoSop
    /\ st = NoSt

CallCompressToBuf(X, level, c) ==
    /\ src' = X
    /\ CompressReturns(compress_to_buf(htab, X, c, level), level, c)
    /\ pc' = "called"
    /\ UNCHANGED <<dout, snk, sop, st>>

CallCompressToVec(X, level) ==
    /\ src' = X
    /\ CompressReturns(compress_to_vec(htab, X, level), level, NoCap)
    /\ pc' = "called"
    /\ UNCHANGED <<dout, snk, sop, st>>

NextReuse ==
    \/ \E X \in ReuseInputs : \E level \in Levels : \E c \in {ReuseCap} :
          CallCompressToBuf(X, level, c)
    \/ \E X \in ReuseInputs : \E level \in Levels : CallCompressToVec(X, level)

SpecReuse == InitReuse /\ [][NextReuse]_vars

\* ------------------------------------------------------------------------
\* Specification SpecStep: one compress call followed one iteration of its
\* main loop at a time, and the decompress call on its stream followed one
\* record at a time.
\* ------------------------------------------------------------------------

\* the first bytes of the inputs that hold a far-away match
FarHead == <<101, 102, 103, 104, 105, 106>>

\* what follows the filler: FarHead's bytes again, in part or in whole
FarTails ==
    { <<101, 102, 103, 104, 105>>, <<101, 102, 103, 104, 105, 106>>,
      <<101, 102, 103, 104>>, <<101, 102, 103, 9>>,
      <<101, 102, 103, 104, 9, 9>>, <<101, 102, 103, 104, 105, 9>>,
      <<101, 102, 103, 104, 105, 9, 9, 9, 9, 9>>,
      <<101, 102, 103, 9, 101, 102, 103, 104, 105, 106, 9, 9>> }

\* the offsets of the tail: a match of the tail with the head has the
\* displacement FarDisp - 1, FarDisp or FarDisp + 1
FarOffsets == {FarDisp, FarDisp + 1, FarDisp + 2}

FarInput(off, tail) == FarHead \o RunInput(off - Len(FarHead)) \o tail

FarInputs == {FarInput(off, tail) : off \in FarOffsets, tail \in FarTails}

\* inputs whose tail repeats FarHead at the displacement MAX_DISP_L2 and at
\* the first displacement beyond it
VeryFarInputs ==
    {FarInput(off, <<101, 102, 103, 104, 105, 106, 9, 9>>) :
        off \in {MAX_DISP_L2 + 1, MAX_DISP_L2 + 2}}

IsFar(S) == Len(S) >= FarDisp

IsVeryFar(S) == Len(S) > MAX_DISP_L2

\* longest enumerated input of the calls followed step by step
MaxStepLen == 8

StepInputs ==
    SeqsUpTo(ByteVals, MaxStepLen) \cup TestInputs \cup FarInputs \cup VeryFarInputs

\* capacities of the output of the calls followed step by step
StepCaps(S) ==
    IF IsVeryFar(S) THEN {NoCap}
    ELSE IF IsFar(S) THEN {NoCap, 0, 20}
    ELSE {NoCap, 2, 5, Len(S) + 1}

\* levels of the calls followed step by step: the longest inputs are
\* compressed at Level2 only
StepLevels(S) == IF IsVeryFar(S) THEN {"Level2"} ELSE Levels

\* the tables of the CompressState the call is made on: a new one, and one
\* that an earlier call has used
PriorTables == {NewHtab, compress_to_vec(NewHtab, <<1, 2, 1, 1, 2, 2, 1, 2, 1>>, "Level1").htab}

InitStep ==
    /\ src \in StepInputs
    /\ htab \in (IF IsFar(src) THEN {NewHtab} ELSE PriorTables)
    /\ lvl = "Default"
    /\ cap = NoCap
    /\ cout = NewVec
    /\ dout = NoDout
    /\ pc = "idle"
    /\ snk = DNewVec
    /\ sop = NoSop
    /\ st = NoSt

\* compress_to_buf / compress_to_vec up to the main loop of compress_impl;
\* on the empty input the call returns at once
BeginCompress(level, c) ==
    /\ pc = "idle"
    /\ lvl' = level
    /\ cap' = c
    /\ IF Len(src) = 0
       THEN /\ cout' = (IF c = NoCap THEN NewVec ELSE NewBuf(c))
            /\ pc' = "compressed"
            /\ st' = st
       ELSE /\ st' = LoopStart(htab, IF c = NoCap THEN NewVec ELSE NewBuf(c))
            /\ pc' = "loop"
            /\ cout' = cout
    /\ UNCHANGED <<htab, src, dout, snk, sop>>

\* one iteration of the main loop
LoopStep ==
    /\ pc = "loop"
    /\ ~LoopEnds(src, st)
    /\ st' = CompressStep(src, PickLevel(lvl, src), st)
    /\ UNCHANGED <<htab, src, lvl, cap, cout, dout, pc, snk, sop>>

\* the loop is left and the call returns
LoopExit ==
    /\ pc = "loop"
    /\ LoopEnds(src, st)
    /\ CompressReturns(AfterLoop(src, PickLevel(lvl, src), st), lvl, cap)
    /\ pc' = "compressed"
    /\ UNCHANGED <<src, dout, snk, sop, st>>

\* decompress_impl on the stream of a successful compression, up to the
\* first record; c is NoCap for decompress_to_vec
BeginDecompress(c) ==
    /\ pc = "compressed"
    /\ ~cout.err
    /\ IF Len(Written(cout)) = 0 \/ SelectDecoder(Written(cout)[1]) = 0
       THEN /\ dout' = decompress_impl(Written(cout), IF c = NoCap THEN DNewVec ELSE DNewBuf(c))
            /\ pc' = "decoded"
       ELSE /\ dout' = DecodeStart(Written(cout), SelectDecoder(Written(cout)[1]),
                                   IF c = NoCap THEN DNewVec ELSE DNewBuf(c))
            /\ pc' = "decoding"
    /\ UNCHANGED <<htab, src, lvl, cap, cout, snk, sop, st>>

\* one record of decompress_lv1 / decompress_lv2
DecodeStep ==
    /\ pc = "decoding"
    /\ dout.res = "run"
    /\ dout' = DecodeRecord(Written(cout), dout.dec, dout)
    /\ pc' = (IF dout'.res = "run" THEN "decoding" ELSE "decoded")
    /\ UNCHANGED <<htab, src, lvl, cap, cout, snk, sop, st>>

NextStep ==
    \/ \E level \in StepLevels(src) : \E c \in StepCaps(src) : BeginCompress(level, c)
    \/ LoopStep
    \/ LoopExit
    \/ \E c \in (IF IsVeryFar(src) THEN {NoCap} ELSE {NoCap, Len(src), Len(src) - 1}) :
          c >= NoCap /\ BeginDecompress(c)
    \/ DecodeStep

SpecStep == InitStep /\ [][NextStep]_vars

\* ------------------------------------------------------------------------
\* Specification SpecWriter: an opcode writer (L1Output / L2Output) over a
\* new sink is handed at most one literal run and then one backreference.
\* ------------------------------------------------------------------------

\* longest backreference handed to a writer
MaxBackrefLen == 800

\* the literal runs handed to a writer have 1..MaxWriterLits bytes, or 32
\* more than that
MaxWriterLits == 2

\* the largest capacity of the region a writer writes to
MaxWriterCap == 4

\* displacements handed to L1Output::put_backref
WriterDisps1 == {0, 1, 255, 256, MAX_DISP_L1 - 1, MAX_DISP_L1}

\* displacements handed to L2Output::put_backref
WriterDisps2 ==
    WriterDisps1 \cup {MAX_DISP_L1 + 1, MAX_DISP_L1 + 255, MAX_DISP_L1 + 256,
                       MAX_DISP_L2 - 1, MAX_DISP_L2}

WriterLits == (1..MaxWriterLits) \cup {32 + k : k \in 1..MaxWriterLits}

\* the bytes the literal runs are taken from
LitSource == SubSeq([k \in 1..(32 + MaxWriterLits) |-> 64 + k], 1, 32 + MaxWriterLits)

InitWriter ==
    /\ htab = << >>
    /\ src = LitSource
    /\ lvl = "Default"
    /\ cap \in {NoCap, 1, MaxWriterCap}
    /\ cout = (IF cap = NoCap THEN NewVec ELSE NewBuf(cap))
    /\ dout = NoDout
    /\ pc = "writer"
    /\ snk = DNewVec
    /\ sop = NoSop
    /\ st = NoSt

\* the caller keeps what a writer operation returned
WriterReturns(name, disp, len, o) ==
    /\ cout' = o
    /\ sop' = [op |-> name, disp |-> disp, len |-> len, res |-> CompressResult(o),
               before |-> cout, n |-> sop.n + 1]

WriterPutLits ==
    /\ pc = "writer"
    /\ \E n \in WriterLits : WriterReturns("put_lits", 0, n, put_lits(cout, src, 0, n))
    /\ pc' = "writer-lits"
    /\ UNCHANGED <<htab, src, lvl, cap, dout, snk, st>>

WriterPutBackrefL1 ==
    /\ pc \in {"writer", "writer-lits"}
    /\ ~cout.err
    /\ \E disp \in WriterDisps1 : \E len \in 3..MaxBackrefLen :
           WriterReturns("put_backref_l1", disp, len, put_backref_l1(cout, disp, len))
    /\ pc' = "writer-done"
    /\ UNCHANGED <<htab, src, lvl, cap, dout, snk, st>>

WriterPutBackrefL2 ==
    /\ pc \in {"writer", "writer-lits"}
    /\ ~cout.err
    /\ \E disp \in WriterDisps2 : \E len \in 3..MaxBackrefLen :
           WriterReturns("put_backref_l2", disp, len, put_backref_l2(cout, disp, len))
    /\ pc' = "writer-done"
    /\ UNCHANGED <<htab, src, lvl, cap, dout, snk, st>>

NextWriter ==
    \/ WriterPutLits
    \/ WriterPutBackrefL1
    \/ WriterPutBackrefL2

SpecWriter == InitWriter /\ [][NextWriter]_vars

\* ------------------------------------------------------------------------
\* Specification SpecBound: one compress call on an input that is short, or
\* holds no repeat, or holds one repeat next to a long run of literals
\* ------------------------------------------------------------------------

\* longest enumerated input of SpecBound
MaxBoundLen == 8

\* the bytes 1, 2, ..., n: no three bytes occur twice
Ramp(n) == SubSeq([k \in 1..n |-> k], 1, n)

\* lengths around one, two and three full literal runs
RampLens == {31, 32, 33, 63, 64, 65, 96, 97}

\* a repeat after, before and between long runs of literals
MixedInputs ==
    { Ramp(40) \o <<1, 2, 3, 4>> \o <<200, 201>>,
      <<7, 7, 7, 7, 7>> \o Ramp(33),
      Ramp(33) \o <<1, 2, 3>> \o SubSeq(Ramp(80), 41, 80),
      Ramp(32) \o <<30, 31, 32>> \o <<250>> }

BoundInputs ==
    SeqsUpTo(ByteVals, MaxBoundLen) \cup TestInputs
        \cup {Ramp(n) : n \in RampLens} \cup MixedInputs

\* n + ceil(n / 32)
L1Bound(n) == n + ((n + 31) \div 32)

\* a region of the bound, one byte less, one byte more
BoundCaps(S) == {c \in (L1Bound(Len(S)) - 1)..(L1Bound(Len(S)) + 1) : c >= 0}

InitBound ==
    /\ htab = NewHtab
    /\ src \in BoundInputs
    /\ lvl = "Default"
    /\ cap = NoCap
    /\ cout = NewVec
    /\ dout = NoDout
    /\ pc = "start"
    /\ snk = DNewVec
    /\ sop = NoSop
    /\ st = NoSt

NextBound ==
    \/ \E level \in Levels : \E c \in BoundCaps(src) : CompressToBuf(level, c)
    \/ \E level \in Levels : CompressToVec(level)

SpecBound == InitBound /\ [][NextBound]_vars

\* ------------------------------------------------------------------------
\* Specification SpecLive: the calls of SpecStep, and decompress calls on
\* streams received from elsewhere, with every call running to completion
\* once it has begun (the calls are synchronous: nothing suspends them).
\* ------------------------------------------------------------------------

\* longest enumerated input
MaxLiveLen == 5

\* longest enumerated stream
MaxLiveStream == 4

LiveInputs == SeqsUpTo(ByteVals, MaxLiveLen) \cup TestInputs

LiveStreams == SeqsUpTo(StreamBytes, MaxLiveStream) \cup TestStreams

\* either an input waits to be compressed, or a stream has been received
InitLive ==
    /\ htab = NewHtab
    /\ lvl = "Default"
    /\ cap = NoCap
    /\ dout = NoDout
    /\ snk = DNewVec
    /\ sop = NoSop
    /\ st = NoSt
    /\ \/ /\ src \in LiveInputs
          /\ cout = NewVec
          /\ pc = "idle"
       \/ /\ src = << >>
          /\ \E S \in LiveStreams : cout = [NewVec EXCEPT !.buf = S, !.pos = Len(S)]
          /\ pc = "compressed"

NextLive ==
    \/ \E level \in Levels : \E c \in StepCaps(src) : BeginCompress(level, c)
    \/ LoopStep
    \/ LoopExit
    \/ \E c \in {NoCap, Len(src)} \cup 0..MaxCap : BeginDecompress(c)
    \/ DecodeStep

\* DecodeStep is enabled exactly in these states: a record always changes
\* dout (it ends the run or appends to dout.recs)
DecodeStepEnabled == pc = "decoding" /\ dout.res = "run"

\* weak fairness of DecodeStep, WF_vars(DecodeStep), with its enabling
\* condition written out
DecodeStepFair == <>[]DecodeStepEnabled => []<><<DecodeStep>>_vars

\* a call that has started keeps running: the loops are plain sequential
\* code, so a step that can be taken is taken
SpecLive ==
    /\ InitLive
    /\ [][NextLive]_vars
    /\ WF_vars(LoopStep)
    /\ WF_vars(LoopExit)
    /\ DecodeStepFair

\* ------------------------------------------------------------------------
\* Properties
\* ------------------------------------------------------------------------

\* a is a leading part of b
IsPrefix(a, b) == Len(a) <= Len(b) /\ SubSeq(b, 1, Len(a)) = a

\* the sink a call with the arguments (S, level, c) leaves behind when it is
\* made on a CompressState that has just been created
FreshCall(S, level, c) ==
    IF c = NoCap
    THEN compress_to_vec(NewHtab, S, level).o
    ELSE compress_to_buf(NewHtab, S, c, level).o

\* a capacity that holds the whole output for the input S
AdequateCap(S) == IF IsBig(S) THEN 2000 ELSE 2 * Len(S) + 2

\* C1 (round trip): whenever the stream of a successful compression of src,
\* at any level and into either kind of output, has been decompressed, the
\* decompression has succeeded and has produced exactly src.
C1_RoundTrip ==
    pc = "decompressed" =>
        /\ dout.res = "Ok"
        /\ dout.o.pos = Len(src)
        /\ SubSeq(dout.o.buf, 1, dout.o.pos) = src

\* a stream with a backreference (it is shorter than its input) written at
\* level 2 has been decompressed into a region
C1_Witness ==
    /\ pc = "decompressed"
    /\ lvl = "Level2"
    /\ Len(src) = MaxLen
    /\ cout.pos < Len(src)
    /\ dout.o.kind = "buf"

\* C2 (compression overflow prefix), as stated: whenever compress_to_buf
\* has been called with a region too small for the result, it has returned
\* OutputTooSmall and the bytes written are the leading bytes of the output
\* of the same call with an adequate region.
C2_OverflowPrefix ==
    (pc = "compressed" /\ cap # NoCap
        /\ FreshCall(src, lvl, AdequateCap(src)).pos > cap) =>
        /\ CompressResult(cout) = "OutputTooSmall"
        /\ IsPrefix(Written(cout), Written(FreshCall(src, lvl, AdequateCap(src))))

\* C3 (decompression overflow prefix): whenever a stream that decodes to Y
\* has been decompressed into a region of capacity cap < Len(Y), the call
\* has returned OutputTooSmall and the region holds the first cap bytes of Y.
C3_DecompressOverflowPrefix ==
    (pc = "decoded" /\ cap # NoCap
        /\ decompress_to_vec(src).res = "Ok"
        /\ cap < Len(decompress_to_vec(src).o.buf)) =>
        /\ dout.res = "OutputTooSmall"
        /\ dout.o.pos = cap
        /\ dout.o.buf = SubSeq(decompress_to_vec(src).o.buf, 1, cap)

\* the overflow has happened inside a backreference copy that still had
\* room for some of its bytes
C3_Witness ==
    /\ pc = "decoded"
    /\ cap # NoCap
    /\ decompress_to_vec(src).res = "Ok"
    /\ dout.res = "OutputTooSmall"
    /\ dout.ctrl >= 32
    /\ Len(dout.recs) >= 1
    /\ dout.recs[Len(dout.recs)].pos < cap

\* C4 (level marker): after a successful Level1 (Level2) compression of a
\* non-empty src the top three bits of the first byte are 000 (001), and
\* its low five bits are the opcode n - 1 of a literal run of n bytes: the
\* n bytes that follow are the first n bytes of src.
C4_LevelMarker ==
    (pc = "compressed" /\ ~cout.err /\ Len(src) > 0 /\ lvl \in {"Level1", "Level2"}) =>
        /\ cout.pos >= 2
        /\ cout.buf[1] \div 32 = (IF lvl = "Level1" THEN 0 ELSE 1)
        /\ (cout.buf[1] % 32) + 1 <= Len(src)
        /\ (cout.buf[1] % 32) + 2 <= cout.pos
        /\ SubSeq(cout.buf, 2, (cout.buf[1] % 32) + 2)
               = SubSeq(src, 1, (cout.buf[1] % 32) + 1)

\* a level-2 stream that starts with a run of one literal and goes on with
\* a backreference
C4_Witness ==
    /\ pc = "compressed"
    /\ ~cout.err
    /\ lvl = "Level2"
    /\ cap # NoCap
    /\ Len(src) = MaxLen
    /\ cout.buf[1] = 32
    /\ cout.pos > 2

\* C5 (format dispatch): after decompress of a non-empty stream, the
\* level-1 decoder has run if the top three bits of the first byte are 000,
\* the level-2 decoder if they are 001, and otherwise the call has returned
\* InvalidCompressionLevel and the output is as it was handed in.
C5_FormatDispatch ==
    (pc = "decoded" /\ Len(src) > 0) =>
        /\ src[1] \div 32 = 0 => dout.dec = 1
        /\ src[1] \div 32 = 1 => dout.dec = 2
        /\ src[1] \div 32 >= 2 =>
              /\ dout.res = "InvalidCompressionLevel"
              /\ dout.o = (IF cap = NoCap THEN DNewVec ELSE DNewBuf(cap))

\* a stream whose marker is 111 and whose further bytes would be a valid
\* record has been handed to decompress_to_buf with room for output
C5_Witness ==
    /\ pc = "decoded"
    /\ Len(src) > 1
    /\ src[1] \div 32 = 7
    /\ cap # NoCap
    /\ cap > 0
    /\ dout.res = "InvalidCompressionLevel"

\* C6 (empty input): a compress call on the empty input, at any level and
\* into any output (a region of capacity 0 included), has succeeded and has
\* written nothing; decompress of the empty stream has succeeded and has
\* written nothing.
C6_EmptyInput ==
    /\ (pc \in {"compressed", "decompressed"} /\ src = << >>) =>
           /\ CompressResult(cout) = "Ok"
           /\ cout.pos = 0
           /\ cout.buf = (IF cap = NoCap THEN << >> ELSE Zeroes(cap))
    /\ (pc = "decompressed" /\ Written(cout) = << >>) =>
           /\ dout.res = "Ok"
           /\ dout.o.pos = 0
           /\ dout.o.buf = (IF dout.o.kind = "vec" THEN << >> ELSE Zeroes(Len(dout.o.buf)))

\* the empty input has been compressed at level 2 into a region of
\* capacity 0 and the empty stream has been decompressed
C6_Witness ==
    /\ pc = "decompressed"
    /\ src = << >>
    /\ lvl = "Level2"
    /\ cap = 0
    /\ dout.res = "Ok"

\* C7 (invalid backreference): whenever the last operation on the sink was
\* a put_backref with disp + 1 > the number of bytes output before it, it
\* has returned InvalidBackreference and the sink (cursor and bytes) is as
\* it was before the operation, so that what follows sees the sink as if
\* the operation had not been made.
C7_InvalidBackref ==
    (pc = "sink" /\ sop.op = "put_backref" /\ sop.disp + 1 > sop.before.pos) =>
        /\ sop.res = "InvalidBackreference"
        /\ snk = sop.before

\* an invalid backreference whose length would also overflow the region
\* has been made on a region that already holds bytes
C7_Witness ==
    /\ pc = "sink"
    /\ sop.op = "put_backref"
    /\ sop.n >= 2
    /\ cap # NoCap
    /\ sop.before.pos > 0
    /\ sop.disp + 1 > sop.before.pos
    /\ sop.before.pos + sop.len > cap

\* the input and output cursors after the records of the decoding d, with
\* the cursors <<0, 0>> the first record starts from
Boundaries(d) == {<<0, 0>>} \cup {<<d.recs[i].ip, d.recs[i].pos>> : i \in 1..Len(d.recs)}

\* the output cursor at the last record boundary of d at or before input
\* cursor k
PosBefore(d, k) ==
    CHOOSE p \in 0..d.o.pos :
        \E b \in Boundaries(d) :
            /\ b[2] = p
            /\ b[1] <= k
            /\ \A b2 \in Boundaries(d) : b2[1] <= k => b2[1] <= b[1]

\* the stream S[1..k] ends inside a record of the decoding d of S: k is
\* no record boundary, and it lies before a later boundary, or inside the
\* last record of a stream that is complete or truncated, or before the
\* last byte of the record whose backreference d has rejected
EndsInsideRecord(d, S, k) ==
    /\ \A b \in Boundaries(d) : b[1] # k
    /\ \/ d.res = "Ok"
       \/ d.res = "InputTruncated"
       \/ \E b \in Boundaries(d) : b[1] > k
       \/ d.res = "InvalidBackreference" /\ k < d.ip

\* C8 (truncated input): let the stream src have been decompressed into a
\* growable output.  A leading part of src that ends exactly after one of
\* its records decompresses with success to the output of the records up
\* to there.  A leading part that ends inside a record all of whose
\* predecessors decode without error (whichever byte of a literal run or
\* of a backreference is the first one missing) yields InputTruncated and
\* the output of the records before it, with no byte of the cut record.
C8_TruncatedInput ==
    (pc = "decoded" /\ cap = NoCap /\ dout.dec # 0) =>
        \A k \in 1..Len(src) :
            /\ (\E b \in Boundaries(dout) : b[1] = k) =>
                  /\ decompress_to_vec(SubSeq(src, 1, k)).res = "Ok"
                  /\ decompress_to_vec(SubSeq(src, 1, k)).o.buf
                        = SubSeq(dout.o.buf, 1, PosBefore(dout, k))
            /\ EndsInsideRecord(dout, src, k) =>
                  /\ decompress_to_vec(SubSeq(src, 1, k)).res = "InputTruncated"
                  /\ decompress_to_vec(SubSeq(src, 1, k)).o.buf
                        = SubSeq(dout.o.buf, 1, PosBefore(dout, k))

\* after one complete record, the stream ends inside a literal run that
\* declares more bytes than are left
C8_Witness ==
    /\ pc = "decoded"
    /\ cap = NoCap
    /\ dout.res = "InputTruncated"
    /\ dout.ctrl < 32
    /\ Len(dout.recs) >= 1
    /\ dout.ip < Len(src)
    /\ dout.o.pos = dout.recs[Len(dout.recs)].pos

\* C9 (state reuse): after any sequence of compress calls on one
\* CompressState, the result and the output of the last call are those of
\* the same call on a CompressState that has just been created.
C9_StateReuse ==
    pc = "called" =>
        /\ cout = FreshCall(src, lvl, cap)
        /\ CompressResult(cout) = CompressResult(FreshCall(src, lvl, cap))

\* a successful call whose output holds a backreference has been made
C9_Witness ==
    /\ pc = "called"
    /\ ~cout.err
    /\ cap = NoCap
    /\ Len(src) > 0
    /\ cout.pos < Len(src)
    /\ \E h \in DOMAIN htab : htab[h] > 1

\* C10 (default level): a compress call at level Default has left exactly
\* what the same call at Level1 leaves if src is shorter than 65536 bytes,
\* and what the same call at Level2 leaves otherwise, in a region and in a
\* growable output alike.
C10_DefaultLevel ==
    (pc = "compressed" /\ lvl = "Default") =>
        cout = FreshCall(src, IF Len(src) < 65536 THEN "Level1" ELSE "Level2", cap)

\* an input of exactly 65536 bytes has been compressed at level Default
\* and the stream bears the level-2 marker
C10_Witness ==
    /\ pc = "compressed"
    /\ lvl = "Default"
    /\ Len(src) = 65536
    /\ ~cout.err
    /\ cout.buf[1] \div 32 = 1

\* ---- properties of the calls followed step by step (SpecStep) ----

\* the writer level of the call
StepLevel == PickLevel(lvl, src)

\* the candidate the iteration at st.pos reads from the table, and its
\* displacement
CandPos == HtabGet(st.htab, fastlz_hash(Key3(src, st.pos)))

CandDisp == st.pos - CandPos - 1

\* this step is an iteration of the main loop
IsLoopStep == pc = "loop" /\ pc' = "loop" /\ st' # st

\* this step is an iteration that has put out a backreference for st.pos;
\* its length is st'.anchor - st.pos
EmitsBackref == IsLoopStep /\ st'.anchor # st.anchor /\ ~st'.o.err

\* the number of leading equal bytes of S[a ..] and S[b ..], for b < a
Greedy(S, a, b) ==
    CHOOSE n \in 0..(Len(S) - a) :
        /\ \A k \in 1..n : S[a + k] = S[b + k]
        /\ n = Len(S) - a \/ S[a + n + 1] # S[b + n + 1]

\* the last n bytes of w
LastBytes(w, n) == SubSeq(w, Len(w) - n + 1, Len(w))

\* the displacement of the last record of the level-2 stream S, whose
\* decoding d is complete, or -1 if that record is a literal run
LastRecordDisp(S, d) ==
    LET start == IF Len(d.recs) >= 2 THEN d.recs[Len(d.recs) - 1].ip ELSE 0
        ctrl  == IF start = 0 THEN S[1] % 32 ELSE S[start + 1]
    IN  IF ctrl < 32 THEN -1
        ELSE ReadDisp(S, 2, ctrl, ReadLen(S, 2, ctrl, start + 1).ip).disp

\* C11 (level-2 end-of-stream rule): the last record of a successful
\* Level2 stream is never a backreference of displacement >= 8191.  When
\* an iteration of a Level2 call puts out a backreference of displacement
\* >= 8191, the backreference does not reach the end of the input, and if
\* the greedy match at that position reaches the end of the input, its
\* length is the greedy length less one and the loop ends; the one input
\* byte left is then put out as a literal run of one byte.
C11_EndOfStreamRule ==
    /\ [](  (pc = "decoded" /\ dout.res = "Ok" /\ dout.dec = 2 /\ Len(dout.recs) >= 1)
               => LastRecordDisp(Written(cout), dout) < 8191)
    /\ [](  (pc = "compressed" /\ StepLevel = "Level2" /\ ~cout.err /\ st.anchor > 0
               /\ st.anchor = Len(src) - 1)
               => LastBytes(Written(cout), 2) = <<0, src[Len(src)]>>)
    /\ [][ (EmitsBackref /\ StepLevel = "Level2" /\ CandDisp >= 8191) =>
               /\ st'.anchor < Len(src)
               /\ (st.pos + Greedy(src, st.pos, CandPos) = Len(src)) =>
                     /\ st'.anchor - st.pos = Greedy(src, st.pos, CandPos) - 1
                     /\ st'.done ]_vars

\* a Level2 stream whose last records are a backreference with the
\* extended displacement and a run of the last input byte
C11_Witness ==
    /\ pc = "compressed"
    /\ StepLevel = "Level2"
    /\ ~cout.err
    /\ IsFar(src)
    /\ st.done
    /\ st.anchor = Len(src) - 1
    /\ cout.pos >= 6
    /\ LastBytes(Written(cout), 2) = <<0, src[Len(src)]>>
    /\ LastBytes(Written(cout), 6)[1] >= 32
    /\ LastBytes(Written(cout), 6)[1] % 32 = 31
    /\ LastBytes(Written(cout), 6)[2] = 255

\* ---- properties of the decoder sinks (SpecSink), continued ----

\* the growable sink that holds the bytes output so far into o
AsVec(o) == [kind |-> "vec", pos |-> o.pos, buf |-> SubSeq(o.buf, 1, o.pos)]

\* C12 (overlapping copy): whenever the last operation on the sink was a
\* put_backref (disp, len) made when p >= disp + 1 bytes had been output,
\* the bytes output before are as they were, every byte appended at
\* p + k equals the byte at p + k - (disp + 1), also when len > disp + 1;
\* if the operation returned Ok it appended len bytes, it returns Ok
\* unless the region is too small, and the bytes then are those the same
\* operation appends to a growable sink holding the same bytes.
C12_OverlappingCopy ==
    (pc = "sink" /\ sop.op = "put_backref" /\ sop.before.pos >= sop.disp + 1) =>
        /\ snk.pos >= sop.before.pos
        /\ SubSeq(snk.buf, 1, sop.before.pos) = SubSeq(sop.before.buf, 1, sop.before.pos)
        /\ \A k \in 0..(snk.pos - sop.before.pos - 1) :
              snk.buf[sop.before.pos + k + 1]
                  = snk.buf[sop.before.pos + k - (sop.disp + 1) + 1]
        /\ (sop.res = "Ok") = (cap = NoCap \/ sop.before.pos + sop.len <= cap)
        /\ sop.res = "Ok" =>
              /\ snk.pos = sop.before.pos + sop.len
              /\ SubSeq(snk.buf, 1, snk.pos)
                     = d_put_backref(AsVec(sop.before), sop.disp, sop.len).o.buf

\* a copy longer than its displacement + 1 has repeated two different
\* bytes in a region
C12_Witness ==
    /\ pc = "sink"
    /\ sop.op = "put_backref"
    /\ sop.res = "Ok"
    /\ cap # NoCap
    /\ sop.disp >= 1
    /\ sop.len > sop.disp + 1
    /\ snk.buf[sop.before.pos] # snk.buf[sop.before.pos - 1]

\* ------------------------------------------------------------------------
\* C13 .. C15: the bytes a writer emits for one backreference
\* ------------------------------------------------------------------------

\* the bytes the last writer operation appended
Emitted == SubSeq(cout.buf, sop.before.pos + 1, cout.pos)

WroteBackref(name) == sop.op = name /\ ~cout.err

\* the level-1 match opcodes of a byte sequence, read by the format: a top
\* field of 7 has a length byte (length 9 + byte) before the low
\* displacement byte, any other top field t is the length t + 2; a truncated
\* opcode reads as a chunk of length 0
RECURSIVE ChunksL1(_, _)
ChunksL1(E, i) ==
    IF i > Len(E) THEN << >>
    ELSE LET t  == E[i] \div 32
             hi == E[i] % 32
         IN  IF t = 7
             THEN IF i + 2 > Len(E) THEN <<[len |-> 0, disp |-> -1]>>
                  ELSE <<[len |-> 9 + E[i + 1], disp |-> hi * 256 + E[i + 2]]>>
                       \o ChunksL1(E, i + 3)
             ELSE IF i + 1 > Len(E) THEN <<[len |-> 0, disp |-> -1]>>
                  ELSE <<[len |-> t + 2, disp |-> hi * 256 + E[i + 1]]>>
                       \o ChunksL1(E, i + 2)

RECURSIVE SumLen(_)
SumLen(cs) == IF cs = << >> THEN 0 ELSE Head(cs).len + SumLen(Tail(cs))

\* C13: a level-1 backreference (disp, len) is emitted as consecutive match
\* opcodes that all carry disp, each with a length in 3..264, and whose
\* lengths sum to len.
C13_L1Chunking ==
    WroteBackref("put_backref_l1") =>
        LET cs == ChunksL1(Emitted, 1)
        IN  /\ Len(cs) >= 1
            /\ \A k \in 1..Len(cs) : cs[k].disp = sop.disp /\ cs[k].len \in 3..(255 + 9)
            /\ SumLen(cs) = sop.len

\* a backreference longer than two chunks was split
C13_Witness ==
    /\ WroteBackref("put_backref_l1")
    /\ sop.len > 2 * (255 + 9)
    /\ sop.disp = MAX_DISP_L1
    /\ Len(ChunksL1(Emitted, 1)) >= 3

\* C14 as stated: every non-final chunk of a split level-1 backreference is
\* the maximal chunk and advances the remaining length by 264.
C14_NonFinalChunkIs264 ==
    WroteBackref("put_backref_l1") =>
        LET cs == ChunksL1(Emitted, 1)
        IN  \A k \in 1..(Len(cs) - 1) : cs[k].len = 264

\* C14: a level-1 backreference is split exactly when len > 0xFF + 9; every
\* non-final chunk is the three bytes 0xE0 | disp >> 8, 0xFD, disp & 0xFF,
\* which encode the length 0xFF - 2 + 9 = 262, and the remaining length
\* advances by 262 per non-final chunk.
C14_NonFinalChunkIs262 ==
    WroteBackref("put_backref_l1") =>
        LET cs == ChunksL1(Emitted, 1)
            n  == Len(cs)
        IN  /\ (n > 1) <=> (sop.len > 255 + 9)
            /\ \A k \in 1..(n - 1) :
                  /\ cs[k].len = 262
                  /\ SubSeq(Emitted, 3 * k - 2, 3 * k) =
                        <<224 + sop.disp \div 256, 253, sop.disp % 256>>
            /\ n >= 1 => cs[n].len = sop.len - 262 * (n - 1)

\* a split backreference whose last chunk is shorter than 9
C14_Witness ==
    /\ WroteBackref("put_backref_l1")
    /\ sop.len = 2 * 262 + 3
    /\ sop.disp = 256
    /\ Emitted = <<225, 253, 0, 225, 253, 0, 33, 0>>

\* the length-extension bytes for a remaining length n: n \div 255 bytes
\* 0xFF, then the byte n % 255
ExtBytes(n) == SubSeq([k \in 1..(n \div 255) |-> 255], 1, n \div 255) \o <<n % 255>>

\* C15: a level-2 backreference (disp, len), 0 <= disp <= 73726, is the byte
\* (min(len - 2, 7) << 5) | (min(disp, 8191) >> 8); then, exactly when
\* len >= 9, extension bytes that are all 0xFF except the last, which is
\* below 0xFF, and that sum to len - 9; then the low eight bits of
\* min(disp, 8191); then, exactly when disp >= 8191, the two bytes of
\* disp - 8191, high byte first.
C15_L2BackrefLayout ==
    WroteBackref("put_backref_l2") =>
        LET d13 == Min2(sop.disp, 8191)
            far == sop.disp - 8191
        IN  /\ sop.disp \in 0..73726
            /\ Emitted =
                  <<Min2(sop.len - 2, 7) * 32 + d13 \div 256>>
                  \o (IF sop.len >= 9 THEN ExtBytes(sop.len - 9) ELSE << >>)
                  \o <<d13 % 256>>
                  \o (IF sop.disp >= 8191 THEN <<far \div 256, far % 256>> ELSE << >>)

\* a far backreference with two length-extension bytes
C15_Witness ==
    /\ WroteBackref("put_backref_l2")
    /\ sop.disp = MAX_DISP_L1 + 256
    /\ sop.len = 9 + 255
    /\ Emitted = <<255, 255, 0, 255, 1, 0>>

\* ------------------------------------------------------------------------
\* C16: the records decompress_lv2 decodes
\* ------------------------------------------------------------------------

\* 1-based index in src of the control byte of the k-th decoded record
CtrlIdx(k) == IF k = 1 THEN 1 ELSE dout.recs[k - 1].ip + 1

\* the control byte of the k-th record as the format reads it: the first
\* byte of the stream without its top three bits, a later byte as it is
CtrlOf(k) == IF k = 1 THEN src[1] % 32 ELSE src[CtrlIdx(k)]

\* output cursor before the k-th record
PosBeforeRec(k) == IF k = 1 THEN 0 ELSE dout.recs[k - 1].pos

\* index of the first byte from j on that is not 0xFF (Len(src) + 1 if none)
FirstNonFF(j) ==
    LET cand == {e \in j..Len(src) : src[e] # 255}
    IN  IF cand = {} THEN Len(src) + 1 ELSE CHOOSE e \in cand : \A f \in cand : e <= f

RECURSIVE SumBytes(_, _)
SumBytes(a, b) == IF a > b THEN 0 ELSE src[b] + SumBytes(a, b - 1)

\* C16: every record of a level-2 stream that decodes: a control byte with
\* top bits 000 is a literal run; top bits 111 give the length 9 plus the
\* sum of the following bytes up to and including the first that is not
\* 0xFF, other top bits t the length t + 2; after the low displacement byte
\* two further bytes are consumed, and added high byte first to the
\* displacement, exactly when the 13-bit displacement is 0x1FFF; only the
\* first control byte is masked.
C16_L2DecoderExtensions ==
    (pc = "decoded" /\ dout.dec = 2) =>
        \A k \in 1..Len(dout.recs) :
            LET c    == CtrlIdx(k)
                ctrl == CtrlOf(k)
                t    == ctrl \div 32
                pos0 == PosBeforeRec(k)
                pos1 == dout.recs[k].pos
                e    == IF t = 7 THEN FirstNonFF(c + 1) ELSE c
                len  == IF t = 7 THEN 9 + SumBytes(c + 1, e) ELSE t + 2
                d13  == (ctrl % 32) * 256 + src[e + 1]
                disp == IF d13 = 8191 THEN d13 + src[e + 2] * 256 + src[e + 3] ELSE d13
            IN  IF t = 0
                THEN /\ pos1 - pos0 = ctrl + 1
                     /\ dout.recs[k].ip = c + ctrl + 1
                ELSE /\ e + 1 <= Len(src)
                     /\ d13 = 8191 => e + 3 <= Len(src)
                     /\ dout.recs[k].ip = (IF d13 = 8191 THEN e + 3 ELSE e + 1)
                     /\ pos1 - pos0 = len
                     /\ disp + 1 <= pos0
                     /\ \A j \in (pos0 + 1)..pos1 :
                            dout.o.buf[j] = dout.o.buf[j - (disp + 1)]

\* a stream with a long length extension and a far displacement of
\* 8191 + 0x0100 decodes
C16_Witness ==
    /\ pc = "decoded"
    /\ dout.dec = 2
    /\ dout.res = "Ok"
    /\ src = VeryLongDisp256
    /\ Len(dout.recs) = 3
    /\ dout.o.pos = 8452
    /\ SubSeq(dout.o.buf, 8450, 8452) = <<66, 67, 67>>

\* ------------------------------------------------------------------------
\* C17: the range of the main loop
\* ------------------------------------------------------------------------

\* the main loop has neither hit a break nor a failed write
LoopLive == pc = "loop" /\ ~st.done /\ ~st.o.err

\* the candidate read at st.pos passes the three-byte test
CandAccepted ==
    /\ CandPos < st.pos
    /\ CandDisp <= MAX_DISP(StepLevel)
    /\ \A k \in 1..3 : src[st.pos + k] = src[CandPos + k]

CandFar == StepLevel = "Level2" /\ CandDisp >= 8191

\* C17 as stated: the main loop runs while i + 3 <= len(S): whenever the
\* cursor has three input bytes left, another iteration follows.
C17_LoopWhileThreeBytes ==
    [][ (LoopLive /\ st.pos + 3 <= Len(src)) => pc' = "loop" ]_vars

\* C17: the main loop runs while i + 4 <= len(S): with four bytes left at
\* the cursor i the position is hashed and tested (a candidate that passes
\* the three-byte test and is not far gets a backreference, a candidate that
\* fails it leaves i in the table and moves the cursor by one); with fewer
\* than four bytes left the loop ends, so a three-byte repeat that starts at
\* len(S) - 3 gets no backreference.
C17_LoopWhileFourBytes ==
    [][ LoopLive =>
          /\ (pc' = "loop") <=> (st.pos + 4 <= Len(src))
          /\ (pc' = "loop" /\ CandAccepted /\ ~CandFar) => st'.anchor > st.pos
          /\ (pc' = "loop" /\ ~CandAccepted) =>
                /\ st'.pos = st.pos + 1
                /\ HtabGet(st'.htab, fastlz_hash(Key3(src, st.pos))) = st.pos
                /\ st'.anchor = st.anchor
                /\ st'.o = st.o
          /\ pc' # "loop" => (st' = st /\ st.pos + 4 > Len(src)) ]_vars

\* an input of six bytes whose last three bytes repeat its first three is
\* put out as one literal run
C17_Witness ==
    /\ pc = "compressed"
    /\ Len(src) = 6
    /\ SubSeq(src, 4, 6) = SubSeq(src, 1, 3)
    /\ ~cout.err
    /\ st.pos = 3
    /\ st.anchor = 0
    /\ Written(cout) = <<5>> \o src

\* ------------------------------------------------------------------------
\* C18: the table entries made after a backreference
\* ------------------------------------------------------------------------

\* the position two bytes before the end of the match this step put out
StraddlePos == st'.anchor - 2

HashAt(q) == fastlz_hash(Key3(src, q))

\* the iteration that ended the loop found fewer than four bytes at the
\* straddle position of the backreference it had put out
EndedAtStraddle ==
    pc = "compressed" /\ st.done /\ ~st.o.err /\ st.anchor > 0 /\ st.pos = st.anchor - 2

FarCandidateStep == IsLoopStep /\ StepLevel = "Level2" /\ CandAccepted /\ CandDisp >= 8191

FiveBytesEqual == \A k \in 1..5 : src[st.pos + k] = src[CandPos + k]

\* the encoding of the n input bytes from position a as literal runs
RECURSIVE LitRuns(_, _)
LitRuns(a, n) ==
    IF n > 32
    THEN <<31>> \o SubSeq(src, a + 1, a + 32) \o LitRuns(a + 32, n - 32)
    ELSE <<n - 1>> \o SubSeq(src, a + 1, a + n)

\* the loop was ended by an iteration that put out nothing
EndedAtFarGate ==
    pc = "compressed" /\ st.done /\ ~st.o.err /\ st.pos >= st.anchor

\* C19 (level-2 far-match gate): in a Level2 call, for a candidate at a
\* displacement >= 8191 that passes the three-byte test: with fewer than
\* five bytes left the scan stops without output and all bytes from the
\* anchor are put out as literals; with five bytes left of which the
\* fourth or fifth differs the cursor moves by one without output; a
\* backreference is put out exactly when the five bytes at the cursor equal
\* the five bytes at the candidate.  Every backreference put out with a
\* displacement >= 8191 has length >= 4, and length >= 5 unless the match
\* reached the end of the input and was shortened by one.
C19_FarMatchGate ==
    /\ [][ FarCandidateStep =>
             LET rem == Len(src) - st.pos
             IN  IF rem < 5
                 THEN /\ st'.done
                      /\ st'.pos = st.pos
                      /\ st'.anchor = st.anchor
                      /\ st'.o = st.o
                 ELSE IF ~FiveBytesEqual
                 THEN /\ ~st'.done
                      /\ st'.pos = st.pos + 1
                      /\ st'.anchor = st.anchor
                      /\ st'.o = st.o
                 ELSE /\ st'.anchor > st.pos
                      /\ st'.o # st.o ]_vars
    /\ [][ (EmitsBackref /\ StepLevel = "Level2" /\ CandDisp >= 8191) =>
             LET len == st'.anchor - st.pos
             IN  /\ Len(src) - st.pos >= 5
                 /\ FiveBytesEqual
                 /\ len >= 4
                 /\ len < 5 => (/\ st'.anchor = Len(src) - 1
                                /\ Greedy(src, st.pos, CandPos) = 5) ]_vars
    /\ [](EndedAtFarGate =>
             \/ cout.err
             \/ LET w0 == Written(st.o)
                    w  == Written(cout)
                IN  /\ st.anchor < Len(src)
                    /\ SubSeq(w, Len(w0) + 1, Len(w)) = LitRuns(st.anchor, Len(src) - st.anchor))

\* a Level2 call has stopped at a far candidate with four bytes left, and
\* its output ends with the literal run of these four bytes
C19_Witness ==
    /\ EndedAtFarGate
    /\ StepLevel = "Level2"
    /\ ~cout.err
    /\ Len(src) - st.pos = 4
    /\ st.pos >= FarDisp + 1
    /\ SubSeq(src, 1, 4) = SubSeq(src, st.pos + 1, st.pos + 4)
    /\ HtabGet(st.htab, HashAt(st.pos)) = st.pos
    /\ LastBytes(Written(cout), 4) = <<101, 102, 103, 104>>

\* ------------------------------------------------------------------------
\* C20: the order in which output positions are written
\* ------------------------------------------------------------------------

\* from sink o to sink o2 the cursor has not moved back and every change is
\* at a position from the old cursor up to the new one
WritesAtCursor(o, o2) ==
    /\ o2.pos >= o.pos
    /\ \A k \in 1..o.pos : o2.buf[k] = o.buf[k]
    /\ \A k \in (o2.pos + 1)..Len(o2.buf) : k <= Len(o.buf) /\ o2.buf[k] = o.buf[k]

\* the same, except that the first byte, when it was already written, has
\* got bit 5 set
WritesAtCursorThenMark(o, o2) ==
    /\ o2.pos >= o.pos
    /\ o.pos >= 1 => o2.buf[1] = BitOr(o.buf[1], 32)
    /\ o.pos = 0 => o2.buf[1] \div 32 = 1
    /\ \A k \in 2..o.pos : o2.buf[k] = o.buf[k]
    /\ \A k \in (o2.pos + 1)..Len(o2.buf) : k <= Len(o.buf) /\ o2.buf[k] = o.buf[k]

\* the steps of a decompress call
DecoderWritesAtCursor ==
    /\ (pc = "decoding" /\ pc' \in {"decoding", "decoded"}) => WritesAtCursor(dout.o, dout'.o)
    /\ (pc = "compressed" /\ pc' \in {"decoding", "decoded"}) => dout'.o.pos = 0

\* C20 as stated: in every compress and every decompress call each write
\* is at the cursor, the cursor never moves back, and no position already
\* written is written again.
C20_WritesOnlyAtCursor ==
    [][ /\ (pc = "loop" /\ pc' = "loop") => WritesAtCursor(st.o, st'.o)
        /\ (pc = "loop" /\ pc' = "compressed") => WritesAtCursor(st.o, cout')
        /\ DecoderWritesAtCursor ]_vars

\* C20: in every compress and every decompress call each write is at the
\* cursor, the cursor never moves back, and no position already written is
\* written again, except that a compress call that succeeds with the
\* level-2 writer, as its last step, sets bit 5 of the byte at position 0.
C20_WritesAtCursorOrMarker ==
    [][ /\ (pc = "loop" /\ pc' = "loop") => WritesAtCursor(st.o, st'.o)
        /\ (pc = "loop" /\ pc' = "compressed") =>
              IF StepLevel = "Level2" /\ ~cout'.err
              THEN WritesAtCursorThenMark(st.o, cout')
              ELSE WritesAtCursor(st.o, cout')
        /\ DecoderWritesAtCursor ]_vars

\* a Level2 call that had written a literal run and a backreference before
\* its loop ended has put out a trailing literal run and marked byte 0
C20_Witness ==
    /\ pc = "compressed"
    /\ StepLevel = "Level2"
    /\ ~cout.err
    /\ st.o.pos >= 4
    /\ cout.pos > st.o.pos
    /\ st.o.buf[1] < 32
    /\ cout.buf[1] = st.o.buf[1] + 32
    /\ SubSeq(cout.buf, 2, st.o.pos) = SubSeq(st.o.buf, 2, st.o.pos)

\* ------------------------------------------------------------------------
\* C21: the hash table across the calls on one CompressState
\* ------------------------------------------------------------------------

\* the table a call with the arguments (S, level, c) leaves behind when it
\* is made on a CompressState that has just been created
FreshTable(S, level, c) ==
    IF c = NoCap
    THEN compress_to_vec(NewHtab, S, level).htab
    ELSE compress_to_buf(NewHtab, S, c, level).htab

\* C21 as stated: every call, on an empty input or not, starts from the
\* zeroed table, so the table a call leaves holds no entry of an earlier
\* call: it is the table the same call leaves on a new CompressState.
C21_TableResetEveryCall ==
    pc = "called" => htab = FreshTable(src, lvl, cap)

\* C21: every call on a non-empty input starts from the zeroed table, so
\* the table it leaves holds no entry of an earlier call; a call on the
\* empty input returns before the fill and leaves the table as it found it.
C21_TableResetNonEmptyCall ==
    /\ []((pc = "called" /\ Len(src) > 0) => htab = FreshTable(src, lvl, cap))
    /\ [][ src' = << >> => htab' = htab ]_vars

\* a call on the empty input has returned and the table still holds an
\* entry of an earlier call
C21_Witness ==
    /\ pc = "called"
    /\ src = << >>
    /\ \E h \in DOMAIN htab : htab[h] > 0

\* ------------------------------------------------------------------------
\* C22: the candidate read from the table
\* ------------------------------------------------------------------------

\* the main loop is about to look up the key at st.pos
AtLookup == pc = "loop" /\ ~LoopEnds(src, st)

\* C22 (candidate ordering): at every lookup of the main loop, whatever the
\* input, the level and the earlier use of the CompressState, the candidate
\* read from the table lies before the current position (as does every
\* entry of the table), so cur_pos - ref_pos - 1 is not negative.
C22_CandidateBeforeCursor ==
    AtLookup =>
        /\ CandPos < st.pos
        /\ CandDisp >= 0
        /\ \A h \in DOMAIN st.htab : st.htab[h] < st.pos

\* a lookup on a CompressState used before finds a candidate that this
\* call has entered
C22_Witness ==
    /\ AtLookup
    /\ htab # NewHtab
    /\ CandPos >= 1
    /\ CandPos < st.pos
    /\ \E h \in DOMAIN htab : htab[h] > st.pos

\* ------------------------------------------------------------------------
\* C23: the arguments the main loop hands to the writers
\* ------------------------------------------------------------------------

\* this step is an iteration that has called put_backref for the match at
\* st.pos, with the displacement CandDisp and the length st'.anchor - st.pos
CallsPutBackref == IsLoopStep /\ st'.anchor # st.anchor

\* the bytes of one backreference, as the writer of the level emits them
BackrefBytes(level, disp, len) == Written(put_backref(level, NewVec, disp, len))

\* C23 (writer preconditions): every put_backref the main loop calls has
\* len >= 3 and 0 <= disp <= 8191 at Level1, 0 <= disp <= 73726 at Level2,
\* also when the Level2 end-of-stream rule has shortened the match; the
\* literals before a match are handed to put_lits only when there is at
\* least one, and so are the literals left after the loop: what a step
\* appends to a growable output is the literal runs of a non-empty pending
\* slice, if any, and the backreference, and nothing else.
C23_WriterPreconditions ==
    /\ [][ CallsPutBackref =>
             LET len  == st'.anchor - st.pos
                 disp == CandDisp
                 n    == st.pos - st.anchor
             IN  /\ len >= 3
                 /\ disp >= 0
                 /\ disp <= (IF StepLevel = "Level2" THEN 73726 ELSE 8191)
                 /\ n >= 0
                 /\ cap = NoCap =>
                       Written(st'.o) =
                          Written(st.o)
                          \o (IF n > 0 THEN LitRuns(st.anchor, n) ELSE << >>)
                          \o BackrefBytes(StepLevel, disp, len) ]_vars
    /\ [][ (pc = "loop" /\ pc' = "compressed" /\ cap = NoCap) =>
             LET n == Len(src) - st.anchor
             IN  /\ n >= 0
                 /\ Len(Written(cout')) =
                       Len(Written(st.o)) + (IF n > 0 THEN Len(LitRuns(st.anchor, n)) ELSE 0) ]_vars

\* a Level1 call has put out, with no literal pending, the backreference
\* of its largest displacement, 8191
C23_Witness ==
    /\ pc = "loop"
    /\ StepLevel = "Level1"
    /\ cap = NoCap
    /\ st.anchor - (MAX_DISP_L1 + 1) \in 3..8
    /\ LastBytes(Written(st.o), 2) = <<(st.anchor - (MAX_DISP_L1 + 1) - 2) * 32 + 31, 255>>

\* ------------------------------------------------------------------------
\* C24: termination
\* ------------------------------------------------------------------------

\* the stream a decompress call is reading
DecodedStream == Written(cout)

\* C24 (termination): every compress call and every decompress call that
\* has begun returns.  An iteration of the main loop after which the loop
\* goes on has moved the cursor by at least one, and the cursor stays within
\* the input; a record of a decoder loop after which the loop goes on has
\* consumed at least one input byte, and the bytes consumed stay within the
\* stream; the length-extension loop of a level-2 record has consumed one
\* byte per iteration, up to the first byte that is not 0xFF.
C24_Termination ==
    /\ (pc = "loop") ~> (pc = "compressed")
    /\ (pc = "decoding") ~> (pc = "decoded")
    /\ [](pc = "loop" => st.pos <= Len(src))
    /\ [](pc \in {"decoding", "decoded"} => dout.ip <= Len(DecodedStream))
    /\ [][ (pc = "loop" /\ pc' = "loop") =>
              (st'.done \/ st'.o.err \/ st'.pos >= st.pos + 1) ]_vars
    /\ [][ (pc = "decoding" /\ pc' = "decoding") => dout'.ip >= dout.ip + 1 ]_vars
    /\ [][ (pc = "decoding" /\ dout.dec = 2 /\ dout.ctrl \div 32 = 7
               /\ Len(dout'.recs) > Len(dout.recs)) =>
              \E n \in 1..(Len(DecodedStream) - dout.ip) :
                  /\ \A k \in 1..(n - 1) : DecodedStream[dout.ip + k] = 255
                  /\ DecodedStream[dout.ip + n] # 255
                  /\ dout'.recs[Len(dout'.recs)].ip >= dout.ip + n + 1 ]_vars

\* a decompress call on a received level-2 stream with 33 length-extension
\* bytes has returned Ok
C24_Witness ==
    /\ pc = "decoded"
    /\ src = << >>
    /\ DecodedStream = VeryLongDisp256
    /\ dout.res = "Ok"
    /\ dout.ip = Len(DecodedStream)

\* ------------------------------------------------------------------------
\* C25: level-1 size bound
\* ------------------------------------------------------------------------

\* the call compressed at level 1 an input of at least one byte
Level1Call == pc = "compressed" /\ PickLevel(lvl, src) = "Level1" /\ Len(src) >= 1

\* C25 (level-1 size bound): a level-1 call on n >= 1 bytes puts out at
\* most n + ceil(n / 32) bytes; compress_to_buf on a region of at least
\* that size does not return OutputTooSmall; an input without a repeat is
\* put out as literal runs of at most 32 bytes and reaches the bound.
C25_Level1SizeBound ==
    Level1Call =>
        /\ cap = NoCap =>
              /\ ~cout.err
              /\ Len(Written(cout)) <= L1Bound(Len(src))
        /\ (cap # NoCap /\ cap >= L1Bound(Len(src))) =>
              /\ ~cout.err
              /\ cout.pos <= L1Bound(Len(src))
        /\ (src \in {Ramp(n) : n \in RampLens} /\ (cap = NoCap \/ cap >= L1Bound(Len(src)))) =>
              /\ Written(cout) = LitRuns(0, Len(src))
              /\ Len(Written(cout)) = L1Bound(Len(src))

\* compress_to_buf at Level1 filled a region of exactly the bound with two
\* literal runs: 33 bytes without a repeat
C25_Witness ==
    /\ pc = "compressed"
    /\ lvl = "Level1"
    /\ src = Ramp(33)
    /\ cap = L1Bound(33)
    /\ ~cout.err
    /\ cout.pos = cap
    /\ Written(cout) = <<31>> \o Ramp(32) \o <<0, 33>>

====
